---- MODULE Spec2Model ----
(***************************************************************************)
(* Model of modelvshuman/model_evaluator.py: the evaluation orchestrator   *)
(* (ModelEvaluator.__call__), its two backend evaluators, the extraction   *)
(* orchestrator (MetricExtractor.__call__) with its pytorch extractor, and *)
(* the best-effort eviction of cached model weights.                       *)
(*                                                                         *)
(* A metric accumulator is modelled by the sequence of updates it has      *)
(* received since it was last reset; the zero state is the empty sequence. *)
(* A loader is the number of batches it yields plus the number of          *)
(* ToTensorflow adapters wrapped around it.                                *)
(***************************************************************************)
EXTENDS Integers, Sequences, FiniteSets, TLC

\* ---- bounds of the model ----
MaxModels == 3
MaxDatasets == 2
MaxBatches == 2
MaxMetrics == 2
MaxLayers == 2

\* ---- program constant ----
MAX_NUM_MODELS_IN_CACHE == 3

\* ---- names: sequences of characters ----
VitName == <<"V", "-", "b">>
TfName == <<"t", "f">>
JaxName == <<"j", "x">>
ModelNames == {VitName, TfName, JaxName}

\* files that may sit in /root/.cache/torch/checkpoints/
FileLonger == <<"V", "_", "B", "-", "1">>
FileOther == <<"V", "b", "-">>
CacheFileNames == {FileLonger, FileOther}

\* utils.load_model: the backend tag returned for a model name
load_model(name) ==
  IF name = VitName THEN "pytorch"
  ELSE IF name = TfName THEN "tensorflow"
  ELSE "jax"

\* str.lower on one character
lower(c) ==
  CASE c = "V" -> "v"
    [] c = "B" -> "b"
    [] c = "T" -> "t"
    [] c = "J" -> "j"
    [] c = "X" -> "x"
    [] OTHER -> c

\* name.lower().replace("-", "_")
_format_name(name) ==
  [i \in 1..Len(name) |-> IF lower(name[i]) = "-" THEN "_" ELSE lower(name[i])]

\* str.startswith
startswith(s, prefix) ==
  /\ Len(prefix) <= Len(s)
  /\ SubSeq(s, 1, Len(prefix)) = prefix

\* the entries of the cache directory that the loop of
\* _remove_model_from_cache hands to os.remove
DownloadedMatches(downloaded_models, model_name) ==
  {dm \in downloaded_models :
     startswith(_format_name(dm), _format_name(model_name))}

\* the bare "except: pass" of _remove_model_from_cache catches everything
SuppressedOnlyMissing(exc) == exc = "FileNotFoundError"

Suppressed(exc) == TRUE

\* the outcomes of the try block of _remove_model_from_cache: the exception
\* raised inside it (or "none") and the files os.remove deleted before that
RemoveOutcomes(fw, model_name, dirExists, files) ==
  IF fw # "pytorch" THEN {[exc |-> "none", removed |-> {}]}
  ELSE IF ~dirExists THEN {[exc |-> "FileNotFoundError", removed |-> {}]}
  ELSE LET matching == DownloadedMatches(files, model_name) IN
       {[exc |-> "PermissionError", removed |-> {}]}
       \cup {[exc |-> "none", removed |-> matching]}
       \cup {[exc |-> e, removed |-> S] :
               e \in {"PermissionError", "FileNotFoundError"},
               S \in (SUBSET matching) \ {matching}}

\* "if len(models) >= MAX_NUM_MODELS_IN_CACHE"
ShouldEvictStrict(n) == n > MAX_NUM_MODELS_IN_CACHE

ShouldEvict(n) == n >= MAX_NUM_MODELS_IN_CACHE

\* ---- metrics ----
\* "for metric in dataset.metrics: metric.reset()"
NoReset(metrics) == metrics

ResetMetrics(metrics) == [k \in DOMAIN metrics |-> <<>>]

\* "for metric in dataset.metrics: metric.update(...)"
UpdateFirstMetricOnly(metrics, upds) ==
  [k \in DOMAIN metrics |-> IF k = 1 THEN metrics[k] \o upds ELSE metrics[k]]

UpdateMetrics(metrics, upds) == [k \in DOMAIN metrics |-> metrics[k] \o upds]

\* a freshly constructed metric accumulator is in its zero state
NewMetric == <<>>

\* "dataset.metrics = [m.ReciprocalRank(), m.Probability(), m.Entropy()]"
ExtractionMetrics == <<NewMetric, NewMetric, NewMetric>>

\* the updates one batch gives a metric in the extractor:
\* "for layer, intermediate_features in enumerate(intermediates)"
LayerUpdatesFromOne(m, b, n) == [l \in 1..n |-> <<m, b, l>>]

LayerUpdates(m, b, n) == [l \in 1..n |-> <<m, b, l - 1>>]

\* metric.value of an extraction metric: a mapping from layer index to what
\* was accumulated for that layer (here the number of updates)
LayerValue(state) ==
  LET layersSeen == {state[j][3] : j \in 1..Len(state)} IN
  [l \in layersSeen |-> Cardinality({j \in 1..Len(state) : state[j][3] = l})]

\* ---- CSV output ----
\* "if kwargs['print_predictions']: result_writer.print_batch_to_csv(...)"
PredictionRowsAlways(pp, m, d, b) == <<<<m, d, b>>>>

PredictionRows(pp, m, d, b) == IF pp THEN <<<<m, d, b>>>> ELSE <<>>

\* "if kwargs['print_predictions']: for metric in dataset.metrics:
\*      e.print_performance_to_csv(...)"
PerformanceRowsFirstOnly(pp, m, d, metrics) ==
  IF pp /\ Len(metrics) > 0
  THEN <<[model |-> m, dataset |-> d, metric |-> 1, value |-> metrics[1]]>>
  ELSE <<>>

PerformanceRows(pp, m, d, metrics) ==
  IF pp
  THEN [k \in 1..Len(metrics) |->
          [model |-> m, dataset |-> d, metric |-> k, value |-> metrics[k]]]
  ELSE <<>>

\* "e.print_metrics_to_csv(...)" of the extraction orchestrator
MetricsRows(pp, m, d, metrics) ==
  IF pp
  THEN [k \in 1..Len(metrics) |->
          [model |-> m, dataset |-> d, metric |-> k,
           value |-> LayerValue(metrics[k])]]
  ELSE <<>>

\* ---- datasets ----
\* utils.load_dataset: a dataset with its loader, decision mapping and metrics
load_dataset(batches, nmetrics) ==
  [loader |-> [batches |-> batches, wrapped |-> 0],
   return_raw_probs |-> FALSE,
   metrics |-> [k \in 1..nmetrics |-> NewMetric]]

\* "dataset.loader = ToTensorflow(dataset.loader)"
ToTensorflow(loader) == [loader EXCEPT !.wrapped = @ + 1]

WrapAll(ds) ==
  [d \in DOMAIN ds |-> [ds[d] EXCEPT !.loader = ToTensorflow(@)]]

\* _to_tensorflow: what the caller's list looks like afterwards, the list
\* returned, and whether the returned datasets are the caller's objects
_to_tensorflow_in_place(ds) ==
  [shared |-> WrapAll(ds), datasets |-> WrapAll(ds), alias |-> TRUE]

_to_tensorflow(ds) ==
  [shared |-> ds, datasets |-> WrapAll(ds), alias |-> FALSE]

\* _get_evaluator: the evaluator chosen for a backend tag, or the error
_get_evaluator_default_pytorch(fw) ==
  IF fw = "tensorflow" THEN "_tensorflow_evaluator" ELSE "_pytorch_evaluator"

_get_evaluator(fw) ==
  IF fw = "tensorflow" THEN "_tensorflow_evaluator"
  ELSE IF fw = "pytorch" THEN "_pytorch_evaluator"
  ELSE "NameError"

\* _get_extractor
_get_extractor_no_tf_branch(fw) ==
  IF fw = "pytorch" THEN "_pytorch_extractor" ELSE "NameError"

_get_extractor(fw) ==
  IF fw = "tensorflow" THEN "ValueError"
  ELSE IF fw = "pytorch" THEN "_pytorch_extractor"
  ELSE "NameError"

IsError(r) == r \in {"NameError", "ValueError"}

\* ---- state ----
VARIABLES
  mode,               \* "evaluate": ModelEvaluator, "extract": MetricExtractor
  models,             \* argument models: the model names
  dataset_names,      \* argument dataset_names: per dataset its number of batches
  nmetrics,           \* number of metrics each loaded dataset comes with
  layers,             \* number of intermediate layers a pytorch model reports
  print_predictions,  \* kwargs["print_predictions"]
  cacheDir,           \* whether the cache directory exists
  cacheFiles,         \* the files in the cache directory
  _datasets,          \* the datasets loaded once per run
  datasets,           \* local "datasets": alias of _datasets or its copy
  framework,          \* backend tag of the model being evaluated
  evaluator,          \* the evaluator or extractor selected for it
  pc, err,            \* position in __call__; the error that ended the run
  mi, di, bi,         \* index of the current model, dataset, batch
  loaded,             \* history: indices of the models loaded
  forwarded,          \* history: <<model, dataset, batch>> of forward passes
  evaluated,          \* history: <<model, dataset>> of finished evaluator calls
  evictions,          \* history: indices of the models of the eviction attempts
  suppressed,         \* history: exceptions swallowed by eviction attempts
  removedLog,         \* history: <<model, file>> of the os.remove calls that succeeded
  csv_pred,           \* rows written by print_batch_to_csv
  csv_perf            \* rows written by print_performance_to_csv / print_metrics_to_csv

inputs == <<mode, models, dataset_names, nmetrics, layers, print_predictions, cacheDir>>
history == <<loaded, forwarded, evaluated, evictions, suppressed, removedLog>>
csv == <<csv_pred, csv_perf>>
vars == <<inputs, cacheFiles, _datasets, datasets, framework, evaluator,
          pc, err, mi, di, bi, history, csv>>

SeqsUpTo(S, n) == UNION {[1..k -> S] : k \in 0..n}

\* the loader sizes of n datasets: consecutive datasets differ by one batch,
\* wrapping around at MaxBatches
LoaderSizes(n, first) == [d \in 1..n |-> (first + d - 1) % (MaxBatches + 1)]

Init ==
  /\ mode \in {"evaluate", "extract"}
  /\ models \in SeqsUpTo(ModelNames, MaxModels)
  /\ dataset_names \in {LoaderSizes(n, first) :
                           n \in 0..MaxDatasets, first \in 0..MaxBatches}
  /\ nmetrics \in (IF mode = "evaluate" THEN 1..MaxMetrics ELSE {1})
  /\ layers \in (IF mode = "extract" THEN 1..MaxLayers ELSE {0})
  /\ print_predictions \in BOOLEAN
  /\ cacheDir \in BOOLEAN
  /\ cacheFiles \in (IF cacheDir THEN SUBSET CacheFileNames ELSE {{}})
  /\ _datasets = <<>>
  /\ datasets = [alias |-> TRUE, copy |-> <<>>]
  /\ framework = "none"
  /\ evaluator = "none"
  /\ pc = "start"
  /\ err = "none"
  /\ mi = 1 /\ di = 1 /\ bi = 1
  /\ loaded = <<>> /\ forwarded = <<>> /\ evaluated = <<>> /\ evictions = <<>>
  /\ suppressed = {} /\ removedLog = {}
  /\ csv_pred = <<>> /\ csv_perf = <<>>

\* the dataset list the local name "datasets" refers to
CurList == IF datasets.alias THEN _datasets ELSE datasets.copy
CurDataset == CurList[di]

\* assignment to a field of the current dataset object
SetCurMetrics(metrics, raw) ==
  IF datasets.alias
  THEN /\ _datasets' = [_datasets EXCEPT ![di].metrics = metrics,
                                         ![di].return_raw_probs = raw]
       /\ UNCHANGED datasets
  ELSE /\ datasets' = [datasets EXCEPT !.copy[di].metrics = metrics,
                                       !.copy[di].return_raw_probs = raw]
       /\ UNCHANGED _datasets

\* "_datasets = self._get_datasets(dataset_names, *args, **kwargs)"
GetDatasets ==
  /\ pc = "start"
  /\ _datasets' = [d \in 1..Len(dataset_names) |->
                     load_dataset(dataset_names[d], nmetrics)]
  /\ pc' = "next_model"
  /\ UNCHANGED <<inputs, cacheFiles, datasets, framework, evaluator, err,
                 mi, di, bi, history, csv>>

\* ModelEvaluator.__call__: head of the loop over models
EvalLoadModel ==
  /\ pc = "next_model" /\ mode = "evaluate" /\ mi <= Len(models)
  /\ LET fw == load_model(models[mi])
         ev == _get_evaluator(fw)
         tf == _to_tensorflow(_datasets)
     IN /\ framework' = fw
        /\ loaded' = Append(loaded, mi)
        /\ evaluator' = ev
        /\ IF IsError(ev)
           THEN /\ pc' = "error" /\ err' = ev
                /\ datasets' = [alias |-> TRUE, copy |-> <<>>]
                /\ UNCHANGED <<_datasets, di>>
           ELSE /\ pc' = "dataset" /\ di' = 1 /\ UNCHANGED err
                /\ IF fw = "tensorflow"
                   THEN /\ _datasets' = tf.shared
                        /\ datasets' = [alias |-> tf.alias,
                                        copy |-> IF tf.alias THEN <<>>
                                                 ELSE tf.datasets]
                   ELSE /\ datasets' = [alias |-> TRUE, copy |-> <<>>]
                        /\ UNCHANGED _datasets
  /\ UNCHANGED <<inputs, cacheFiles, mi, bi, forwarded, evaluated, evictions,
                 suppressed, removedLog, csv>>

\* MetricExtractor.__call__: head of the loop over models
ExtractLoadModel ==
  /\ pc = "next_model" /\ mode = "extract" /\ mi <= Len(models)
  /\ LET fw == load_model(models[mi])
         ex == _get_extractor(fw)
     IN /\ framework' = fw
        /\ loaded' = Append(loaded, mi)
        /\ datasets' = [alias |-> TRUE, copy |-> <<>>]
        /\ IF IsError(ex)
           THEN /\ pc' = "error" /\ err' = ex /\ evaluator' = ex
                /\ UNCHANGED di
           ELSE IF fw = "tensorflow"
           THEN /\ pc' = "error" /\ err' = "ValueError" /\ evaluator' = ex
                /\ UNCHANGED di
           ELSE /\ pc' = "dataset" /\ di' = 1 /\ evaluator' = ex
                /\ UNCHANGED err
  /\ UNCHANGED <<inputs, cacheFiles, _datasets, mi, bi, forwarded, evaluated,
                 evictions, suppressed, removedLog, csv>>

\* _pytorch_evaluator up to the batch loop: the metrics are reset
PytorchEvaluatorBegin ==
  /\ pc = "dataset" /\ di <= Len(CurList)
  /\ evaluator = "_pytorch_evaluator"
  /\ SetCurMetrics(ResetMetrics(CurDataset.metrics), CurDataset.return_raw_probs)
  /\ pc' = "batch" /\ bi' = 1
  /\ UNCHANGED <<inputs, cacheFiles, framework, evaluator, err, mi, di,
                 history, csv>>

\* _tensorflow_evaluator up to the batch loop
TensorflowEvaluatorBegin ==
  /\ pc = "dataset" /\ di <= Len(CurList)
  /\ evaluator = "_tensorflow_evaluator"
  /\ SetCurMetrics(ResetMetrics(CurDataset.metrics), CurDataset.return_raw_probs)
  /\ pc' = "batch" /\ bi' = 1
  /\ UNCHANGED <<inputs, cacheFiles, framework, evaluator, err, mi, di,
                 history, csv>>

\* _pytorch_extractor up to the batch loop: decision mapping and metrics swapped
PytorchExtractorBegin ==
  /\ pc = "dataset" /\ di <= Len(CurList)
  /\ evaluator = "_pytorch_extractor"
  /\ SetCurMetrics(ExtractionMetrics, TRUE)
  /\ pc' = "batch" /\ bi' = 1
  /\ UNCHANGED <<inputs, cacheFiles, framework, evaluator, err, mi, di,
                 history, csv>>

\* one iteration of the batch loop of _pytorch_evaluator
PytorchEvaluatorBatch ==
  /\ pc = "batch" /\ evaluator = "_pytorch_evaluator"
  /\ bi <= CurDataset.loader.batches
  /\ forwarded' = Append(forwarded, <<mi, di, bi>>)
  /\ SetCurMetrics(UpdateMetrics(CurDataset.metrics, <<<<mi, bi>>>>),
                   CurDataset.return_raw_probs)
  /\ csv_pred' = csv_pred \o PredictionRows(print_predictions, mi, di, bi)
  /\ bi' = bi + 1
  /\ UNCHANGED <<inputs, cacheFiles, framework, evaluator, pc, err, mi, di,
                 loaded, evaluated, evictions, suppressed, removedLog, csv_perf>>

\* one iteration of the batch loop of _tensorflow_evaluator
TensorflowEvaluatorBatch ==
  /\ pc = "batch" /\ evaluator = "_tensorflow_evaluator"
  /\ bi <= CurDataset.loader.batches
  /\ forwarded' = Append(forwarded, <<mi, di, bi>>)
  /\ SetCurMetrics(UpdateMetrics(CurDataset.metrics, <<<<mi, bi>>>>),
                   CurDataset.return_raw_probs)
  /\ csv_pred' = csv_pred \o PredictionRows(print_predictions, mi, di, bi)
  /\ bi' = bi + 1
  /\ UNCHANGED <<inputs, cacheFiles, framework, evaluator, pc, err, mi, di,
                 loaded, evaluated, evictions, suppressed, removedLog, csv_perf>>

\* one iteration of the batch loop of _pytorch_extractor: every layer of the
\* batch updates every metric
PytorchExtractorBatch ==
  /\ pc = "batch" /\ evaluator = "_pytorch_extractor"
  /\ bi <= CurDataset.loader.batches
  /\ forwarded' = Append(forwarded, <<mi, di, bi>>)
  /\ SetCurMetrics(UpdateMetrics(CurDataset.metrics, LayerUpdates(mi, bi, layers)),
                   CurDataset.return_raw_probs)
  /\ bi' = bi + 1
  /\ UNCHANGED <<inputs, cacheFiles, framework, evaluator, pc, err, mi, di,
                 loaded, evaluated, evictions, suppressed, removedLog, csv>>

\* the loader is exhausted: the evaluator (or extractor) returns
EvaluatorReturn ==
  /\ pc = "batch" /\ bi > CurDataset.loader.batches
  /\ evaluated' = Append(evaluated, <<mi, di>>)
  /\ pc' = "eval_done"
  /\ UNCHANGED <<inputs, cacheFiles, _datasets, datasets, framework, evaluator,
                 err, mi, di, bi, loaded, forwarded, evictions, suppressed,
                 removedLog, csv>>

\* ModelEvaluator.__call__ after the evaluator: log, then performance rows
PrintPerformance ==
  /\ pc = "eval_done" /\ mode = "evaluate"
  /\ csv_perf' = csv_perf \o
        PerformanceRows(print_predictions, mi, di, CurDataset.metrics)
  /\ di' = di + 1 /\ pc' = "dataset"
  /\ UNCHANGED <<inputs, cacheFiles, _datasets, datasets, framework, evaluator,
                 err, mi, bi, history, csv_pred>>

\* MetricExtractor.__call__ after the extractor: log, then per-layer mappings
PrintMetrics ==
  /\ pc = "eval_done" /\ mode = "extract"
  /\ csv_perf' = csv_perf \o
        MetricsRows(print_predictions, mi, di, CurDataset.metrics)
  /\ di' = di + 1 /\ pc' = "dataset"
  /\ UNCHANGED <<inputs, cacheFiles, _datasets, datasets, framework, evaluator,
                 err, mi, bi, history, csv_pred>>

\* end of a model's datasets with fewer models than the threshold
SkipEviction ==
  /\ pc = "dataset" /\ di > Len(CurList)
  /\ ~ShouldEvict(Len(models))
  /\ mi' = mi + 1 /\ pc' = "next_model"
  /\ UNCHANGED <<inputs, cacheFiles, _datasets, datasets, framework, evaluator,
                 err, di, bi, history, csv>>

\* end of a model's datasets: _remove_model_from_cache(framework, model_name)
RemoveModelFromCache ==
  /\ pc = "dataset" /\ di > Len(CurList)
  /\ ShouldEvict(Len(models))
  /\ \E out \in RemoveOutcomes(framework, models[mi], cacheDir, cacheFiles) :
       /\ cacheFiles' = cacheFiles \ out.removed
       /\ evictions' = Append(evictions, mi)
       /\ removedLog' = removedLog \cup {<<mi, f>> : f \in out.removed}
       /\ IF out.exc # "none" /\ ~Suppressed(out.exc)
          THEN /\ pc' = "error" /\ err' = out.exc
               /\ UNCHANGED <<mi, suppressed>>
          ELSE /\ pc' = "next_model" /\ mi' = mi + 1 /\ UNCHANGED err
               /\ suppressed' = suppressed \cup ({out.exc} \ {"none"})
  /\ UNCHANGED <<inputs, _datasets, datasets, framework, evaluator, di, bi,
                 loaded, forwarded, evaluated, csv>>

\* the loop over models is exhausted: "Finished evaluation."
Finish ==
  /\ pc = "next_model" /\ mi > Len(models)
  /\ pc' = "done"
  /\ UNCHANGED <<inputs, cacheFiles, _datasets, datasets, framework, evaluator,
                 err, mi, di, bi, history, csv>>

Next ==
  \/ GetDatasets
  \/ EvalLoadModel
  \/ ExtractLoadModel
  \/ PytorchEvaluatorBegin
  \/ TensorflowEvaluatorBegin
  \/ PytorchExtractorBegin
  \/ PytorchEvaluatorBatch
  \/ TensorflowEvaluatorBatch
  \/ PytorchExtractorBatch
  \/ EvaluatorReturn
  \/ PrintPerformance
  \/ PrintMetrics
  \/ SkipEviction
  \/ RemoveModelFromCache
  \/ Finish

Spec == Init /\ [][Next]_vars


\* ---- helpers of the properties ----
Range(s) == {s[j] : j \in 1..Len(s)}
Supported(fw) == fw \in {"pytorch", "tensorflow"}
InPass == pc \in {"batch", "eval_done"}
Batches == CurDataset.loader.batches
EvictionsOf(i) == {j \in 1..Len(evictions) : evictions[j] = i}
\* nothing of model i has been computed or written
Untouched(i) ==
  /\ \A f \in Range(forwarded) : f[1] # i
  /\ \A r \in Range(csv_pred) : r[1] # i
  /\ \A r \in Range(csv_perf) : r.model # i
  /\ \A d \in DOMAIN _datasets : \A k \in DOMAIN _datasets[d].metrics :
        \A u \in Range(_datasets[d].metrics[k]) : u[1] # i
  /\ \A d \in DOMAIN datasets.copy : \A k \in DOMAIN datasets.copy[d].metrics :
        \A u \in Range(datasets.copy[d].metrics[k]) : u[1] # i

\* C1: when the first metric update of a (model, dataset) pass is about to
\* happen, every metric accumulator of the dataset is in its zero state, and
\* during the pass no accumulator holds an update of another model; for the
\* pytorch evaluator, the tensorflow evaluator and the extractor alike.
C1_ZeroAtFirstUpdate ==
  /\ (pc = "batch" /\ bi = 1) =>
        \A k \in DOMAIN CurDataset.metrics : CurDataset.metrics[k] = <<>>
  /\ InPass =>
        \A k \in DOMAIN CurDataset.metrics :
           \A u \in Range(CurDataset.metrics[k]) : u[1] = mi

C1_Witness ==
  /\ pc = "batch" /\ bi = 1 /\ mi = 2 /\ Batches >= 1
  /\ evaluator = "_pytorch_evaluator"
  /\ load_model(models[1]) = "pytorch"
  /\ <<1, di, 1>> \in Range(forwarded)

\* C2: when a backend evaluator returns, every metric accumulator of the
\* dataset has received exactly one update per batch of the loader, in loader
\* order, for every number of batches including zero; and one forward pass
\* was made per batch.
C2_OneUpdatePerBatch ==
  /\ (InPass /\ mode = "evaluate") =>
        \A k \in DOMAIN CurDataset.metrics :
           CurDataset.metrics[k] = [b \in 1..(bi - 1) |-> <<mi, b>>]
  /\ (pc = "eval_done" /\ mode = "evaluate") =>
        /\ bi - 1 = dataset_names[di]
        /\ Cardinality({j \in 1..Len(forwarded) :
                           forwarded[j][1] = mi /\ forwarded[j][2] = di})
             = dataset_names[di]

C2_Witness ==
  /\ pc = "eval_done" /\ mode = "evaluate"
  /\ evaluator = "_tensorflow_evaluator"
  /\ Batches >= 2 /\ Len(CurDataset.metrics) >= 2

\* the evaluator calls that have returned, in the order of the two loops:
\* the first n (model, dataset) pairs
PairsInOrder(n) ==
  [j \in 1..n |-> <<((j - 1) \div Len(dataset_names)) + 1,
                    ((j - 1) % Len(dataset_names)) + 1>>]

\* C3: eviction is never attempted when the run has fewer than 3 models; with
\* 3 or more it is attempted exactly once for every model that finished, only
\* after all datasets were evaluated for that model and before the next
\* model is loaded.
C3_EvictionThreshold ==
  /\ Len(models) < 3 => evictions = <<>>
  /\ Len(models) >= 3 =>
       /\ evictions = [j \in 1..(mi - 1) |-> j]
       /\ pc = "done" => Len(evictions) = Len(models)
       /\ Len(evaluated) >= Len(evictions) * Len(dataset_names)
       /\ SubSeq(evaluated, 1, Len(evictions) * Len(dataset_names))
            = PairsInOrder(Len(evictions) * Len(dataset_names))
       /\ Len(loaded) <= Len(evictions) + 1
       /\ loaded = [j \in 1..Len(loaded) |-> j]

C3_Witness ==
  /\ pc = "done" /\ mode = "evaluate"
  /\ Len(models) >= 3 /\ Len(dataset_names) >= 1
  /\ Len(evictions) = Len(models)

\* C4: an eviction attempt never raises to its caller: whatever happens inside
\* it (missing directory, no matching file, failing listing or deletion) the
\* run is not ended by it, the orchestrator moves on to the next model, and
\* only files whose normalised name starts with the normalised model name are
\* deleted.
C4_EvictionNeverRaises ==
  /\ err \in {"none", "NameError", "ValueError"}
  /\ \A j \in 1..Len(evictions) : evictions[j] < mi
  /\ \A r \in removedLog :
        /\ startswith(_format_name(r[2]), _format_name(models[r[1]]))
        /\ r[2] # FileOther
        /\ r[2] \notin cacheFiles
  /\ ~cacheDir => removedLog = {}

C4_Witness ==
  /\ pc = "done"
  /\ suppressed = {"PermissionError", "FileNotFoundError"}
  /\ \E r \in removedLog : r[1] = 2 /\ r[2] = FileLonger
  /\ FileOther \in cacheFiles

\* C5: in extraction mode a tensorflow model makes the run fail with a value
\* error as soon as it is loaded: no batch is processed, no metric updated
\* and no CSV row written for that model.
C5_ExtractTensorflowFails ==
  (/\ mode = "extract" /\ mi <= Len(models)
   /\ load_model(models[mi]) = "tensorflow"
   /\ pc \notin {"start", "next_model"})
  => /\ pc = "error" /\ err = "ValueError"
     /\ Untouched(mi)

C5_Witness ==
  /\ mode = "extract" /\ pc = "error" /\ err = "ValueError"
  /\ mi = 2 /\ forwarded # <<>> /\ csv_perf # <<>>

\* C6: in extraction mode with N layers reported per batch, each of the three
\* metrics receives for every batch N updates with layer indices 0..N-1 in
\* order, N*B updates over the B batches, and its output mapping has the N
\* layers as entries once a batch was processed.
C6_UpdatesPerLayer ==
  /\ (InPass /\ mode = "extract") =>
        /\ Len(CurDataset.metrics) = 3
        /\ \A k \in 1..3 :
              CurDataset.metrics[k] =
                 [j \in 1..(layers * (bi - 1)) |->
                    <<mi, ((j - 1) \div layers) + 1, (j - 1) % layers>>]
  /\ (pc = "eval_done" /\ mode = "extract") =>
        /\ bi - 1 = dataset_names[di]
        /\ \A k \in 1..3 :
              /\ Len(CurDataset.metrics[k]) = layers * dataset_names[di]
              /\ dataset_names[di] >= 1 =>
                    DOMAIN LayerValue(CurDataset.metrics[k]) = 0..(layers - 1)
  /\ mode = "extract" =>
        \A r \in Range(csv_perf) :
           dataset_names[r.dataset] >= 1 =>
              /\ DOMAIN r.value = 0..(layers - 1)
              /\ \A l \in DOMAIN r.value : r.value[l] = dataset_names[r.dataset]

C6_Witness ==
  /\ pc = "eval_done" /\ mode = "extract"
  /\ layers >= 2 /\ Batches >= 2
  /\ csv_perf # <<>>

\* C7: with print_predictions set, the evaluation orchestrator writes exactly
\* one performance row per (model, dataset, metric): the rows are, in order,
\* those of the metrics 1..K of every evaluation that finished (the one that
\* has just returned excepted until its rows are written), so none is written
\* twice, early or omitted, and M*D*K rows are there when the run finishes.
C7_OneRowPerTriple ==
  (print_predictions /\ mode = "evaluate") =>
     LET done == Len(evaluated) - (IF pc = "eval_done" THEN 1 ELSE 0) IN
     /\ evaluated = PairsInOrder(Len(evaluated))
     /\ Len(csv_perf) = done * nmetrics
     /\ \A j \in 1..Len(csv_perf) :
           /\ csv_perf[j].model = evaluated[((j - 1) \div nmetrics) + 1][1]
           /\ csv_perf[j].dataset = evaluated[((j - 1) \div nmetrics) + 1][2]
           /\ csv_perf[j].metric = ((j - 1) % nmetrics) + 1
     /\ pc = "done" =>
           Len(csv_perf) = Len(models) * Len(dataset_names) * nmetrics

C7_Witness ==
  /\ pc = "done" /\ mode = "evaluate" /\ print_predictions
  /\ Len(models) >= 2 /\ Len(dataset_names) >= 2 /\ nmetrics >= 2
  /\ Len(csv_perf) = Len(models) * Len(dataset_names) * nmetrics

\* C8: with print_predictions false no CSV row is ever written: neither a
\* per-batch prediction row nor a performance row.
C8_NoCsvWithoutFlag ==
  ~print_predictions => (csv_pred = <<>> /\ csv_perf = <<>>)

C8_Witness ==
  /\ ~print_predictions /\ pc = "done" /\ mode = "evaluate"
  /\ \E f \in Range(forwarded) : load_model(models[f[1]]) = "pytorch"
  /\ \E f \in Range(forwarded) : load_model(models[f[1]]) = "tensorflow"

\* once a model with an unsupported backend tag has been loaded the run has
\* ended with a naming error and nothing was done for that model
C9_UnknownBackendInv ==
  (/\ mi <= Len(models)
   /\ ~Supported(load_model(models[mi]))
   /\ pc \notin {"start", "next_model"})
  => /\ pc = "error" /\ err = "NameError"
     /\ Untouched(mi)
     /\ loaded = [j \in 1..mi |-> j]
     /\ EvictionsOf(mi) = {}

\* C9: a backend tag that is neither supported backend ends the run with a
\* naming error: no batch is processed for that model, no later model is
\* loaded, no eviction is attempted for it, the step that fails changes
\* nothing that earlier models produced, and nothing happens afterwards.
C9_UnknownBackend ==
  /\ []C9_UnknownBackendInv
  /\ [][pc' = "error" =>
          /\ csv' = csv /\ _datasets' = _datasets /\ cacheFiles' = cacheFiles
          /\ forwarded' = forwarded /\ evaluated' = evaluated]_vars
  /\ [][pc = "error" => UNCHANGED vars]_vars

C9_Witness ==
  /\ mode = "evaluate" /\ pc = "error" /\ err = "NameError"
  /\ mi = 2 /\ mi < Len(models)
  /\ csv_perf # <<>> /\ forwarded # <<>>

\* every shared loader is unwrapped and of its original size; the loader being
\* iterated is unwrapped for pytorch and wrapped exactly once for tensorflow
C10_SharedInv ==
  /\ \A d \in DOMAIN _datasets :
        /\ _datasets[d].loader.wrapped = 0
        /\ _datasets[d].loader.batches = dataset_names[d]
  /\ InPass =>
        /\ CurDataset.loader.wrapped = (IF framework = "tensorflow" THEN 1 ELSE 0)
        /\ CurDataset.loader.batches = dataset_names[di]

\* C10: evaluating a tensorflow model changes nothing in the shared dataset
\* list: every shared loader stays unwrapped, a pytorch model iterates an
\* unwrapped loader and a tensorflow model a loader wrapped exactly once
\* (never a wrapper of a wrapper).
C10_SharedDatasetsUntouched ==
  /\ []C10_SharedInv
  /\ [][(framework' = "tensorflow" /\ pc # "start") =>
           _datasets' = _datasets]_vars

C10_Witness ==
  /\ pc = "batch" /\ bi = 2 /\ mi = 3
  /\ framework = "tensorflow"
  /\ load_model(models[1]) = "tensorflow"
  /\ load_model(models[2]) = "pytorch"
  /\ CurDataset.loader.wrapped = 1
  /\ <<1, di, 1>> \in Range(forwarded)
  /\ <<2, di, 1>> \in Range(forwarded)
====
